---------------------------- MODULE Spec2Model ----------------------------
(***************************************************************************)
(* Client application of the issue tracker (React front end).              *)
(*                                                                         *)
(* The model follows the source handler by handler.  A handler that awaits *)
(* a request is split at the await: one action for the part that runs up   *)
(* to the request being sent, and one action per way the request settles   *)
(* (resolved / rejected), which runs the rest of the handler including     *)
(* its catch and finally blocks.  Requests in flight are kept in net and   *)
(* may settle in any order.                                                *)
(*                                                                         *)
(* Every action records in last the handler that ran (last.op) and the     *)
(* observable effects it produced in order (last.fx): toasts, console      *)
(* output, navigations and re-thrown errors.                               *)
(*                                                                         *)
(* A request is first "sent", then "served" (the server has applied it    *)
(* and produced its answer), then settled by the client; it can be         *)
(* rejected at either stage.                                               *)
(*                                                                         *)
(* Seven specifications share the variables:                               *)
(*   SpecAuth        AuthProvider, the Login and Register pages, Layout    *)
(*                   logout                                                *)
(*   SpecPages       Dashboard, Projects, ProjectDetail and IssueDetail,   *)
(*                   one of them opened by a signed-in user, against a     *)
(*                   model of the API server                               *)
(*   SpecPagination  ProjectDetail paging and searching, from the answer   *)
(*                   to its first loadIssues, for every issue count and    *)
(*                   every shape of that answer                            *)
(*   SpecComments    IssueDetail used only for commenting, on a network    *)
(*                   where no request fails                                *)
(*   SpecProjectService  projectService.updateProject called with every    *)
(*                   partial body                                          *)
(*   SpecIssueList   ProjectDetail on a network where no request fails     *)
(*   SpecStatus      IssueDetail used only for status changes, on a        *)
(*                   network where no request fails                        *)
(***************************************************************************)
EXTENDS Integers, Sequences, FiniteSets, TLC

VARIABLES
    localStorage,   \* window.localStorage: keys access_token and user
    auth,           \* AuthProvider state: user, token, isLoading (+ effect position)
    login,          \* Login page state
    register,       \* Register page state
    route,          \* the page the router shows
    dashboard,      \* Dashboard page state
    projects,       \* Projects page state
    projectDetail,  \* ProjectDetail page state
    issueDetail,    \* IssueDetail page state
    server,         \* what the API server stores
    net,            \* requests in flight, each with the closure that awaits it
    last            \* the handler that ran last and the effects it produced

authVars == <<localStorage, auth, login, register>>

pageVars == <<dashboard, projects, projectDetail, issueDetail>>

vars == <<localStorage, auth, login, register, route, dashboard, projects,
          projectDetail, issueDetail, server, net, last>>

----------------------------------------------------------------------------
(* Bounds of the model *)

\* number of requests that may be in flight at once
MaxInFlight == 2

----------------------------------------------------------------------------
(* JavaScript values *)

\* null / undefined
NULL == "<null>"

\* JavaScript truthiness of a string-or-null value: null and '' are falsy
Truthy(v) == v # NULL /\ v # ""

\* user objects the server can return, named by username
Users == {"alice", "bob"}

\* access tokens the server can issue
Tokens == {"tokA", "tokB"}

\* JSON.stringify of a user object or null
JSONstringify(u) ==
    CASE u = NULL    -> "null"
      [] u = "alice" -> "{alice}"
      [] u = "bob"   -> "{bob}"

\* texts on which JSON.parse returns instead of throwing a SyntaxError
ValidJSON == {"null", "{alice}", "{bob}"}

JSONparseThrows(s) == s \notin ValidJSON

\* JSON.parse of a valid text
JSONparse(s) ==
    CASE s = "null"    -> NULL
      [] s = "{alice}" -> "alice"
      [] s = "{bob}"   -> "bob"

\* what localStorage may hold under 'access_token' when the page loads
\* (NULL: the key is absent)
StoredTokens == {NULL, "", "tokA"}

\* what localStorage may hold under 'user' when the page loads: absent, empty,
\* the JSON text null, a stored user, or a text that is not JSON
StoredUsers == {NULL, "", "null", "{alice}", "{bad"}

----------------------------------------------------------------------------
(* Effects and requests *)

Fx(t, v) == [t |-> t, v |-> v]

HasFx(t) == \E i \in 1..Len(last.fx) : last.fx[i].t = t

\* an HTTP request as the services build it
Http(method, path, query, body) ==
    [method |-> method, path |-> path, query |-> query, body |-> body]

\* values a handler's closure captured when it sent the request
NoCap == [page |-> 0, search |-> ""]

NoResp == [k |-> "none"]

\* one HTTP request of a handler: sent, then served (the server has produced
\* the response, which is on its way or waits in a Promise.all)
Part(http) == [http |-> http, st |-> "sent", resp |-> NoResp]

FreeIds == {i \in 1..MaxInFlight : \A r \in net : r.id # i}

Room(n) == Cardinality(net) + n <= MaxInFlight

NewId == CHOOSE i \in FreeIds : \A j \in FreeIds : i <= j

\* a request sent by handler op of the page mounted at owner; orphan is set
\* once that page has been unmounted (its setState calls are then no-ops)
Req(id, op, owner, parts, cap) ==
    [id |-> id, op |-> op, owner |-> owner, orphan |-> FALSE,
     parts |-> parts, cap |-> cap]

\* error shapes of a rejected request: error.response?.data?.message and
\* error.response?.data?.details (a map field -> list of messages; hasDetails
\* tells whether the field is there)
ErrorShapes ==
    { [message |-> m, hasDetails |-> h, details |-> d] :
        m \in {NULL, "server message"},
        h \in BOOLEAN,
        d \in {<<>>, <<"username taken", "password too short">>} }

----------------------------------------------------------------------------
(* Types (types/index.ts) and the state each page starts with *)

IssueStatus == {"open", "in_progress", "resolved", "closed"}

IssuePriority == {"low", "medium", "high", "critical"}

\* useState<Issue | null>(null): no issue, or the issue with its status
NoIssue == [null |-> TRUE, status |-> ""]

IssueOf(s) == [null |-> FALSE, status |-> s]

\* useState<Project | null>(null)
NoProject == [null |-> TRUE, issue_count |-> 0]

ProjectOf(n) == [null |-> FALSE, issue_count |-> n]

\* a list of n entities, named by their ids
Ids(n) == [i \in 1..n |-> i]

\* a list of len consecutive entities of a collection, from its first-th one
NoEntities == [first |-> 1, len |-> 0]

Entities(first, len) == IF len = 0 THEN NoEntities ELSE [first |-> first, len |-> len]

R_dashboard == "/dashboard"

R_projects == "/projects"

R_project == "/projects/:id"

R_issue == "/projects/:projectId/issues/:issueId"

PageRoutes == {R_dashboard, R_projects, R_project, R_issue}

DashboardInitial ==
    [projects |-> NoEntities, myIssues |-> NoEntities, isLoading |-> TRUE,
     mounted |-> FALSE]

ProjectFormInitial == [name |-> "", description |-> ""]

ProjectsInitial ==
    [projects |-> NoEntities, isLoading |-> TRUE, showModal |-> FALSE,
     formData |-> ProjectFormInitial, isSubmitting |-> FALSE, mounted |-> FALSE]

IssueFormInitial ==
    [title |-> "", description |-> "", priority |-> "medium", status |-> "open"]

ProjectDetailInitial ==
    [project |-> NoProject, issues |-> NoEntities, isLoading |-> TRUE,
     showModal |-> FALSE,
     formData |-> IssueFormInitial, isSubmitting |-> FALSE,
     currentPage |-> 1, totalPages |-> 1, searchQuery |-> "", searchInput |-> "",
     mounted |-> FALSE]

IssueDetailInitial ==
    [issue |-> NoIssue, comments |-> <<>>, newComment |-> "",
     isLoading |-> TRUE, isSubmitting |-> FALSE, mounted |-> FALSE]

\* the server's store, as far as the pages read it: the status, priority and
\* title and the number of comments of the issue shown, the name, the
\* description and the number of issues of the project shown (and how many
\* of them were created since the page was opened), the number of projects
\* and of issues assigned to the user
ServerInitial ==
    [status |-> "open", priority |-> "high", title |-> "Crash on save",
     comments |-> 0, issues |-> 0, created |-> 0,
     projects |-> 0, myIssues |-> 0,
     name |-> "Alpha", description |-> "first"]

----------------------------------------------------------------------------
(* authService *)

authService_login == Http("POST", "/auth/login/", <<>>, <<>>)

authService_register == Http("POST", "/auth/register/", <<>>, <<>>)

authService_logout == Http("POST", "/auth/logout/", <<>>, <<>>)

----------------------------------------------------------------------------
(* AuthProvider *)

AuthInitial == [user |-> NULL, token |-> NULL, isLoading |-> TRUE, phase |-> "init"]

isAuthenticated == auth.token # NULL /\ auth.token # ""

\* useEffect(() => {...}, []): restore the session from localStorage
AuthProviderInit ==
    /\ auth.phase = "init"
    /\ LET storedToken == localStorage.access_token
           storedUser  == localStorage.user
       IN  IF Truthy(storedToken) /\ Truthy(storedUser)
           THEN IF JSONparseThrows(storedUser)
                THEN \* JSON.parse throws inside the effect: setIsLoading(false)
                     \* is never reached and React unmounts the tree
                     /\ auth' = [auth EXCEPT !.phase = "crashed"]
                     /\ last' = [op |-> "AuthProvider.init", fx |-> <<Fx("throw", "SyntaxError")>>]
                ELSE /\ auth' = [user |-> JSONparse(storedUser), token |-> storedToken,
                                 isLoading |-> FALSE, phase |-> "ready"]
                     /\ last' = [op |-> "AuthProvider.init", fx |-> <<>>]
           ELSE /\ auth' = [auth EXCEPT !.isLoading = FALSE, !.phase = "ready"]
                /\ last' = [op |-> "AuthProvider.init", fx |-> <<>>]
    /\ UNCHANGED <<localStorage, login, register, route, net>>
    /\ UNCHANGED <<pageVars, server>>

\* setUser(response.user); setToken(response.tokens.access)
SetSession(a, u, t) == [a EXCEPT !.user = u, !.token = t]

\* mutant: only the token is written to localStorage
StoreSession_TokenOnly(ls, u, t) == [ls EXCEPT !.access_token = t]

\* localStorage.setItem('access_token', ...); localStorage.setItem('user', JSON.stringify(...))
StoreSession(ls, u, t) == [ls EXCEPT !.access_token = t, !.user = JSONstringify(u)]

\* setUser(null); setToken(null)
ClearSession(a) == [a EXCEPT !.user = NULL, !.token = NULL]

\* mutant: logout forgets to remove the 'user' key
RemoveStored_KeepsUser(ls) == [ls EXCEPT !.access_token = NULL]

\* localStorage.removeItem('access_token'); localStorage.removeItem('user')
RemoveStored(ls) == [ls EXCEPT !.access_token = NULL, !.user = NULL]

\* the message login's catch block shows
LoginErrorFx(e) ==
    <<Fx("toast.error", IF Truthy(e.message) THEN e.message ELSE "Login failed")>>

\* the messages register's catch block shows: one per entry of details when
\* details is there (none when it is empty), the message otherwise
RegisterErrorFx(e) ==
    IF e.hasDetails
    THEN [i \in 1..Len(e.details) |-> Fx("toast.error", e.details[i])]
    ELSE <<Fx("toast.error", IF Truthy(e.message) THEN e.message ELSE "Registration failed")>>

\* pages rendered inside Layout, which shows the Logout button
LayoutRoutes == {"/dashboard"}

AuthRoutes == {"/login", "/register", "/dashboard"}

\* mutant: ProtectedRoute without the isAuthenticated test
ProtectedRoute_NoGuard ==
    IF auth.isLoading THEN "Loading..." ELSE "children"

\* what ProtectedRoute returns: the placeholder, <Navigate to="/login"
\* replace />, or its children
ProtectedRoute ==
    IF auth.isLoading THEN "Loading..."
    ELSE IF ~isAuthenticated THEN "Navigate"
    ELSE "children"

\* the tree is mounted (the mount effect has not thrown) and the route shown
\* is wrapped in ProtectedRoute
ProtectedRouteMounted == auth.phase # "crashed" /\ route \in LayoutRoutes

LoginInitial == [isLoading |-> FALSE]

RegisterInitial == [isLoading |-> FALSE]

\* the router replaces the page: the page that was shown is unmounted, so its
\* state is gone and the requests it still awaits can no longer set it
Unmounted(n, from) ==
    { IF r.owner = from THEN [r EXCEPT !.orphan = TRUE] ELSE r : r \in n }

\* Login.handleSubmit up to `await login(...)`, and AuthProvider.login up to
\* `await authService.login(credentials)`
LoginSubmit ==
    /\ auth.phase = "ready"
    /\ route = "/login"
    /\ ~login.isLoading
    /\ Room(1)
    /\ login' = [login EXCEPT !.isLoading = TRUE]
    /\ net' = net \cup {Req(NewId, "login", "/login", <<Part(authService_login)>>, NoCap)}
    /\ last' = [op |-> "Login.handleSubmit", fx |-> <<>>]
    /\ UNCHANGED <<localStorage, auth, register, route>>
    /\ UNCHANGED <<pageVars, server>>

\* authService.login resolved: the rest of AuthProvider.login's try block,
\* then Login.handleSubmit's navigate('/dashboard') and finally block
LoginResolved(r, u, t) ==
    /\ r \in net /\ r.op = "login"
    /\ auth.phase = "ready"
    /\ auth' = SetSession(auth, u, t)
    /\ localStorage' = StoreSession(localStorage, u, t)
    /\ route' = "/dashboard"
    /\ login' = LoginInitial
    /\ register' = RegisterInitial
    /\ net' = Unmounted(net \ {r}, route)
    /\ last' = [op |-> "login.resolved",
                fx |-> <<Fx("toast.success", "Login successful!"), Fx("navigate", "/dashboard")>>]
    /\ UNCHANGED <<pageVars, server>>

\* mutant: the catch block of login drops the session that was there
LoginRejected_ClearsSession(r, e) ==
    /\ r \in net /\ r.op = "login"
    /\ auth.phase = "ready"
    /\ login' = IF r.orphan THEN login ELSE [login EXCEPT !.isLoading = FALSE]
    /\ net' = net \ {r}
    /\ auth' = ClearSession(auth)
    /\ last' = [op |-> "login.rejected",
                fx |-> LoginErrorFx(e) \o <<Fx("throw", "error"), Fx("console.error", "Login error:")>>]
    /\ UNCHANGED <<localStorage, register, route>>
    /\ UNCHANGED <<pageVars, server>>

\* authService.login rejected: AuthProvider.login's catch block re-throws,
\* Login.handleSubmit's catch logs and its finally block runs
LoginRejected(r, e) ==
    /\ r \in net /\ r.op = "login"
    /\ auth.phase = "ready"
    /\ login' = IF r.orphan THEN login ELSE [login EXCEPT !.isLoading = FALSE]
    /\ net' = net \ {r}
    /\ last' = [op |-> "login.rejected",
                fx |-> LoginErrorFx(e) \o <<Fx("throw", "error"), Fx("console.error", "Login error:")>>]
    /\ UNCHANGED <<localStorage, auth, register, route>>
    /\ UNCHANGED <<pageVars, server>>

\* Register.handleSubmit up to `await register(formData)`, and
\* AuthProvider.register up to `await authService.register(data)`
RegisterSubmit ==
    /\ auth.phase = "ready"
    /\ route = "/register"
    /\ ~register.isLoading
    /\ Room(1)
    /\ register' = [register EXCEPT !.isLoading = TRUE]
    /\ net' = net \cup {Req(NewId, "register", "/register", <<Part(authService_register)>>, NoCap)}
    /\ last' = [op |-> "Register.handleSubmit", fx |-> <<>>]
    /\ UNCHANGED <<localStorage, auth, login, route>>
    /\ UNCHANGED <<pageVars, server>>

RegisterResolved(r, u, t) ==
    /\ r \in net /\ r.op = "register"
    /\ auth.phase = "ready"
    /\ auth' = SetSession(auth, u, t)
    /\ localStorage' = StoreSession(localStorage, u, t)
    /\ route' = "/dashboard"
    /\ login' = LoginInitial
    /\ register' = RegisterInitial
    /\ net' = Unmounted(net \ {r}, route)
    /\ last' = [op |-> "register.resolved",
                fx |-> <<Fx("toast.success", "Registration successful!"), Fx("navigate", "/dashboard")>>]
    /\ UNCHANGED <<pageVars, server>>

RegisterRejected(r, e) ==
    /\ r \in net /\ r.op = "register"
    /\ auth.phase = "ready"
    /\ register' = IF r.orphan THEN register ELSE [register EXCEPT !.isLoading = FALSE]
    /\ net' = net \ {r}
    /\ last' = [op |-> "register.rejected",
                fx |-> RegisterErrorFx(e) \o <<Fx("throw", "error"), Fx("console.error", "Registration error:")>>]
    /\ UNCHANGED <<localStorage, auth, login, route>>
    /\ UNCHANGED <<pageVars, server>>

\* AuthProvider.logout, called from Layout's Logout button
Logout ==
    /\ auth.phase = "ready"
    /\ ProtectedRouteMounted /\ ProtectedRoute = "children"
    /\ Room(1)
    /\ net' = net \cup {Req(NewId, "logout", "AuthProvider", <<Part(authService_logout)>>, NoCap)}
    /\ auth' = ClearSession(auth)
    /\ localStorage' = RemoveStored(localStorage)
    /\ last' = [op |-> "logout", fx |-> <<Fx("toast.success", "Logged out successfully")>>]
    /\ UNCHANGED <<login, register, route>>
    /\ UNCHANGED <<pageVars, server>>

\* authService.logout() settled: resolved, or rejected into `.catch(() => {})`
LogoutSettled(r, ok) ==
    /\ r \in net /\ r.op = "logout"
    /\ net' = net \ {r}
    /\ last' = [op |-> IF ok THEN "logout.resolved" ELSE "logout.rejected", fx |-> <<>>]
    /\ UNCHANGED <<localStorage, auth, login, register, route>>
    /\ UNCHANGED <<pageVars, server>>

\* <Navigate to="/login" replace /> rendered by ProtectedRoute: the router
\* goes to /login and the protected page is unmounted
ProtectedRoute_Navigate ==
    /\ auth.phase = "ready"
    /\ ProtectedRouteMounted /\ ProtectedRoute = "Navigate"
    /\ route' = "/login"
    /\ login' = LoginInitial
    /\ register' = RegisterInitial
    /\ net' = Unmounted(net, route)
    /\ last' = [op |-> "ProtectedRoute.Navigate", fx |-> <<Fx("navigate", "/login")>>]
    /\ UNCHANGED <<localStorage, auth>>
    /\ UNCHANGED <<pageVars, server>>

\* the user follows a link (Login <-> Register) or enters another address
NavigateAuth(to) ==
    /\ auth.phase = "ready"
    /\ to \in AuthRoutes /\ to # route
    /\ route' = to
    /\ login' = LoginInitial
    /\ register' = RegisterInitial
    /\ net' = Unmounted(net, route)
    /\ last' = [op |-> "navigate", fx |-> <<>>]
    /\ UNCHANGED <<localStorage, auth>>
    /\ UNCHANGED <<pageVars, server>>

\* the browser reloads the page: all in-memory state is gone, requests in
\* flight are dropped, localStorage stays
Reload ==
    /\ auth.phase # "init"
    /\ auth' = AuthInitial
    /\ login' = LoginInitial
    /\ register' = RegisterInitial
    /\ net' = {}
    /\ last' = [op |-> "reload", fx |-> <<>>]
    /\ UNCHANGED <<localStorage, route>>
    /\ UNCHANGED <<pageVars, server>>

InitAuth ==
    /\ localStorage \in [access_token : StoredTokens, user : StoredUsers]
    /\ auth = AuthInitial
    /\ login = LoginInitial
    /\ register = RegisterInitial
    /\ route \in AuthRoutes
    /\ dashboard = DashboardInitial
    /\ projects = ProjectsInitial
    /\ projectDetail = ProjectDetailInitial
    /\ issueDetail = IssueDetailInitial
    /\ server = ServerInitial
    /\ net = {}
    /\ last = [op |-> "load", fx |-> <<>>]

NextAuth ==
    \/ AuthProviderInit
    \/ LoginSubmit
    \/ \E r \in net, u \in Users, t \in Tokens : LoginResolved(r, u, t)
    \/ \E r \in net, e \in ErrorShapes : LoginRejected(r, e)
    \/ RegisterSubmit
    \/ \E r \in net, u \in Users, t \in Tokens : RegisterResolved(r, u, t)
    \/ \E r \in net, e \in ErrorShapes : RegisterRejected(r, e)
    \/ Logout
    \/ \E r \in net, ok \in BOOLEAN : LogoutSettled(r, ok)
    \/ \E to \in AuthRoutes : NavigateAuth(to)
    \/ ProtectedRoute_Navigate
    \/ Reload

SpecAuth == InitAuth /\ [][NextAuth]_vars

----------------------------------------------------------------------------
(* Session lifecycle: claims C1 - C4 (checked under SpecAuth) *)

SessionCleared ==
    /\ auth.user = NULL /\ auth.token = NULL
    /\ ~isAuthenticated
    /\ localStorage.access_token = NULL /\ localStorage.user = NULL

\* C1: clear-on-logout.  Every step that runs logout() ends with user and
\* token null, isAuthenticated false and both localStorage keys absent,
\* whatever the session was before; and the step in which the /auth/logout/
\* request later resolves or rejects changes neither the context nor
\* localStorage (a request that never answers takes no step at all).
C1_ClearOnLogout ==
    [][ /\ (last'.op = "logout" => SessionCleared')
        /\ (last'.op \in {"logout.resolved", "logout.rejected"}
               => UNCHANGED <<auth, localStorage>>) ]_vars

\* logout() has run and its request was rejected by the server afterwards
C1_Witness ==
    /\ last.op = "logout.rejected"
    /\ SessionCleared

\* a key counts as present when getItem returns a non-empty string
Present(v) == Truthy(v)

\* C2: init-on-load.  Once the mount effect has run, token and user hold the
\* stored values if and only if both keys are present in localStorage, and
\* both are null when either key is missing.
C2_InitOnLoad ==
    last.op = "AuthProvider.init" =>
        LET both == Present(localStorage.access_token) /\ Present(localStorage.user)
            restored == /\ auth.token # NULL
                        /\ auth.token = localStorage.access_token
                        /\ JSONstringify(auth.user) = localStorage.user
        IN  /\ both <=> restored
            /\ ~both => (auth.user = NULL /\ auth.token = NULL)

\* C3: init-on-load always completes.  Once the mount effect has run,
\* isLoading is false, for every content of localStorage.
C3_InitCompletes ==
    auth.phase # "init" => auth.isLoading = FALSE

\* C4: a failed login or registration does not partially apply.  The step in
\* which authService.login or authService.register rejects leaves user,
\* token, both localStorage keys and the route as they were, re-throws the
\* error to the page and does not navigate.
C4_FailedAuthNoPartial ==
    [][ last'.op \in {"login.rejected", "register.rejected"} =>
          /\ auth'.user = auth.user /\ auth'.token = auth.token
          /\ localStorage' = localStorage
          /\ route' = route
          /\ \E i \in 1..Len(last'.fx) : last'.fx[i].t = "throw"
          /\ \A i \in 1..Len(last'.fx) : last'.fx[i].t # "navigate" ]_vars

\* a login was rejected while a session was established, and the session is
\* still there
C4_Witness ==
    /\ last.op = "login.rejected"
    /\ isAuthenticated
    /\ localStorage.access_token = auth.token
    /\ route = "/login"

----------------------------------------------------------------------------
(* Services: the request each service function sends *)

PageSize == 20

P_projects == "/projects/"

P_project == "/projects/${id}/"

P_issues == "/projects/${projectId}/issues/"

P_issue == "/projects/${projectId}/issues/${issueId}/"

P_myIssues == "/my-issues/"

P_comments == "/projects/${projectId}/issues/${issueId}/comments/"

P_addComment == "/projects/${projectId}/issues/${issueId}/add_comment/"

\* mutant: the search parameter is appended whatever the search text is
issueService_getProjectIssues_AlwaysSearch(page, search) ==
    Http("GET", P_issues, <<<<"page", ToString(page)>>, <<"search", search>>>>, <<>>)

\* new URLSearchParams(); append('page', page.toString());
\* if (search) append('search', search)
issueService_getProjectIssues(page, search) ==
    Http("GET", P_issues,
         <<<<"page", ToString(page)>>>>
            \o (IF search # "" THEN <<<<"search", search>>>> ELSE <<>>),
         <<>>)

issueService_getIssue == Http("GET", P_issue, <<>>, <<>>)

\* mutant: the request always says status 'open', whatever the form holds
issueService_createIssue_AlwaysOpen(data) ==
    Http("POST", P_issues, <<>>,
         <<<<"title", data.title>>, <<"description", data.description>>,
           <<"priority", data.priority>>, <<"status", "open">>>>)

issueService_createIssue(data) ==
    Http("POST", P_issues, <<>>,
         <<<<"title", data.title>>, <<"description", data.description>>,
           <<"priority", data.priority>>, <<"status", data.status>>>>)

\* mutant: the update replaces the issue (PUT) instead of patching it
issueService_updateIssue_Put(data) == Http("PUT", P_issue, <<>>, data)

issueService_updateIssue(data) == Http("PATCH", P_issue, <<>>, data)

issueService_getMyIssues == Http("GET", P_myIssues, <<>>, <<>>)

projectService_getProjects == Http("GET", P_projects, <<>>, <<>>)

projectService_getProject == Http("GET", P_project, <<>>, <<>>)

projectService_createProject(data) ==
    Http("POST", P_projects, <<>>,
         <<<<"name", data.name>>, <<"description", data.description>>>>)

projectService_updateProject(data) == Http("PUT", P_project, <<>>, data)

commentService_getComments == Http("GET", P_comments, <<>>, <<>>)

commentService_createComment(data) ==
    Http("POST", P_addComment, <<>>, <<<<"content", data.content>>>>)

\* the value of key k in a query string or JSON body, NULL when it is not there
HasKey(kv, k) == \E i \in 1..Len(kv) : kv[i][1] = k

Get(kv, k) ==
    IF HasKey(kv, k)
    THEN kv[CHOOSE i \in 1..Len(kv) : kv[i][1] = k][2]
    ELSE NULL

----------------------------------------------------------------------------
(* The API server, as the specification describes it *)

\* most comments the issue shown can get
MaxComments == 2

\* most issues created in the project shown
MaxCreated == 1

\* most issues the project shown starts with
MaxCount == 21

\* most projects the user can get
MaxProjects == 1

\* highest page number a user goes to
MaxPage == 2

ParsePage(s) == CHOOSE n \in 0..MaxPage : ToString(n) = s

\* number of the project's issues that contain the search text: every issue
\* with an odd id does, and '' is contained in all
Matching(n, search) == IF search = NULL \/ search = "" THEN n ELSE (n + 1) \div 2

\* a page of a list of total entities: the envelope {results, pagination}
ListAnswer(total, page) ==
    LET from == (page - 1) * PageSize
        len  == IF total - from > PageSize THEN PageSize
                ELSE IF total - from > 0 THEN total - from ELSE 0
    IN  [k |-> "list", hasResults |-> TRUE, results |-> Entities(from + 1, len),
         hasPagination |-> TRUE, hasCount |-> TRUE, count |-> total]

\* whether the store can take the write within the model's bounds
ServerAccepts(h, sv) ==
    CASE h.method = "POST" /\ h.path = P_addComment -> sv.comments < MaxComments
      [] h.method = "POST" /\ h.path = P_issues     -> sv.created < MaxCreated
      [] h.method = "POST" /\ h.path = P_projects   -> sv.projects < MaxProjects
      [] OTHER -> TRUE

\* partial update (PATCH): a field the body does not supply keeps its value
Supplied(body, k, old) == IF HasKey(body, k) THEN Get(body, k) ELSE old

\* replacement (PUT): the body is the whole new representation, so a field
\* it does not supply is left without a value
Replaced(body, k) == IF HasKey(body, k) THEN Get(body, k) ELSE NULL

\* the store after the request
ServerApply(h, sv) ==
    CASE h.method = "PATCH" /\ h.path = P_issue
             -> [sv EXCEPT !.status = Supplied(h.body, "status", @),
                           !.priority = Supplied(h.body, "priority", @),
                           !.title = Supplied(h.body, "title", @)]
      [] h.method = "PUT" /\ h.path = P_issue
             -> [sv EXCEPT !.status = Replaced(h.body, "status"),
                           !.priority = Replaced(h.body, "priority"),
                           !.title = Replaced(h.body, "title")]
      [] h.method = "PATCH" /\ h.path = P_project
             -> [sv EXCEPT !.name = Supplied(h.body, "name", @),
                           !.description = Supplied(h.body, "description", @)]
      [] h.method = "PUT" /\ h.path = P_project
             -> [sv EXCEPT !.name = Replaced(h.body, "name"),
                           !.description = Replaced(h.body, "description")]
      [] h.method = "POST" /\ h.path = P_addComment -> [sv EXCEPT !.comments = @ + 1]
      [] h.method = "POST" /\ h.path = P_issues
             -> [sv EXCEPT !.issues = @ + 1, !.created = @ + 1]
      [] h.method = "POST" /\ h.path = P_projects   -> [sv EXCEPT !.projects = @ + 1]
      [] OTHER -> sv

\* the response to the request, from the store after it
ServerAnswer(h, sv) ==
    CASE h.path = P_issue /\ h.method \in {"GET", "PATCH", "PUT"}
             -> [k |-> "issue", issue |-> IssueOf(sv.status)]
      [] h.path = P_comments /\ h.method = "GET"
             -> [k |-> "comments", list |-> Ids(sv.comments)]
      [] h.path = P_issues /\ h.method = "GET"
             -> ListAnswer(Matching(sv.issues, Get(h.query, "search")),
                           ParsePage(Get(h.query, "page")))
      [] h.path = P_projects /\ h.method = "GET" -> ListAnswer(sv.projects, 1)
      [] h.path = P_myIssues /\ h.method = "GET" -> ListAnswer(sv.myIssues, 1)
      [] h.path = P_project /\ h.method \in {"GET", "PATCH", "PUT"}
             -> [k |-> "project", project |-> ProjectOf(sv.issues)]
      [] OTHER -> [k |-> "created"]

AllServed(r) == \A i \in DOMAIN r.parts : r.parts[i].st = "served"

\* the server handles one request of the page that is shown
Serve(r, i) ==
    /\ r \in net /\ r.owner \in PageRoutes
    /\ i \in DOMAIN r.parts /\ r.parts[i].st = "sent"
    /\ LET h == r.parts[i].http
       IN  /\ ServerAccepts(h, server)
           /\ server' = ServerApply(h, server)
           /\ net' = (net \ {r}) \cup
                     {[r EXCEPT !.parts[i].st = "served",
                                !.parts[i].resp = ServerAnswer(h, ServerApply(h, server))]}
    /\ last' = [op |-> "server", fx |-> <<>>]
    /\ UNCHANGED <<authVars, route, pageVars>>

UsedIds(n) == {r.id : r \in n}

\* the k-th smallest id that no request of n has
Fresh(n, k) ==
    CHOOSE i \in 1..(Cardinality(n) + k) :
        /\ i \notin UsedIds(n)
        /\ Cardinality({j \in 1..i : j \notin UsedIds(n)}) = k

\* the id of the first request a continuation sends once request r has settled
NewIdAfter(r) == Fresh(net \ {r}, 1)

\* `x.results || []`
ResultsOr(resp) == IF resp.hasResults THEN resp.results ELSE NoEntities

----------------------------------------------------------------------------
(* Dashboard *)

Dashboard_loadData(id) ==
    Req(id, "Dashboard.loadData", R_dashboard,
        <<Part(projectService_getProjects), Part(issueService_getMyIssues)>>, NoCap)

\* useEffect(() => { loadData(); }, [])
Dashboard_mount ==
    /\ route = R_dashboard /\ ~dashboard.mounted
    /\ Room(1)
    /\ dashboard' = [dashboard EXCEPT !.mounted = TRUE]
    /\ net' = net \cup {Dashboard_loadData(NewId)}
    /\ last' = [op |-> "Dashboard.mount", fx |-> <<>>]
    /\ UNCHANGED <<authVars, route, projects, projectDetail, issueDetail, server>>

\* Promise.all fulfilled: both setters, then finally
Dashboard_loadData_resolved(r) ==
    /\ r \in net /\ r.op = "Dashboard.loadData" /\ AllServed(r)
    /\ dashboard' = [dashboard EXCEPT !.projects = ResultsOr(r.parts[1].resp),
                                      !.myIssues = ResultsOr(r.parts[2].resp),
                                      !.isLoading = FALSE]
    /\ net' = net \ {r}
    /\ last' = [op |-> "Dashboard.loadData.resolved", fx |-> <<>>]
    /\ UNCHANGED <<authVars, route, projects, projectDetail, issueDetail, server>>

\* mutant: the flag is reset only when the load succeeds
Dashboard_loadData_catch_StillLoading(d, r) == d

\* state after Dashboard.loadData's catch and finally blocks
Dashboard_loadData_catch(d, r) == [d EXCEPT !.isLoading = FALSE]

\* what Dashboard.loadData's catch block shows
Dashboard_loadData_catchFx ==
    <<Fx("console.error", "Failed to load dashboard data:")>>

\* Promise.all rejected: one of the two requests failed
Dashboard_loadData_rejected(r) ==
    /\ r \in net /\ r.op = "Dashboard.loadData"
    /\ dashboard' = Dashboard_loadData_catch(dashboard, r)
    /\ net' = net \ {r}
    /\ last' = [op |-> "Dashboard.loadData.rejected", fx |-> Dashboard_loadData_catchFx, r |-> r]
    /\ UNCHANGED <<authVars, route, projects, projectDetail, issueDetail, server>>

----------------------------------------------------------------------------
(* IssueDetail *)

\* what the user can type into the comment box
CommentTexts == {"", " ", "hi"}

\* mutant: the text is tested as typed, without trimming it
Trim_None(s) == s

\* String.prototype.trim on those texts
Trim(s) == IF s = " " THEN "" ELSE s

\* the page shows the issue, its status selector and the comment form
IssueDetailShown ==
    /\ route = R_issue /\ issueDetail.mounted
    /\ ~issueDetail.isLoading /\ ~issueDetail.issue.null

IssueDetail_loadData(id) ==
    Req(id, "IssueDetail.loadData", R_issue,
        <<Part(issueService_getIssue), Part(commentService_getComments)>>, NoCap)

\* useEffect(() => { if (projectId && issueId) loadData(); }, [projectId, issueId])
IssueDetail_mount ==
    /\ route = R_issue /\ ~issueDetail.mounted
    /\ Room(1)
    /\ issueDetail' = [issueDetail EXCEPT !.mounted = TRUE]
    /\ net' = net \cup {IssueDetail_loadData(NewId)}
    /\ last' = [op |-> "IssueDetail.mount", fx |-> <<>>]
    /\ UNCHANGED <<authVars, route, dashboard, projects, projectDetail, server>>

IssueDetail_loadData_resolved(r) ==
    /\ r \in net /\ r.op = "IssueDetail.loadData" /\ AllServed(r)
    /\ issueDetail' = [issueDetail EXCEPT !.issue = r.parts[1].resp.issue,
                                          !.comments = r.parts[2].resp.list,
                                          !.isLoading = FALSE]
    /\ net' = net \ {r}
    /\ last' = [op |-> "IssueDetail.loadData.resolved", fx |-> <<>>]
    /\ UNCHANGED <<authVars, route, dashboard, projects, projectDetail, server>>

\* mutant: the comments that did arrive are shown although the issue failed
IssueDetail_loadData_catch_Partial(p, r) ==
    IF r.parts[2].st = "served"
    THEN [p EXCEPT !.comments = r.parts[2].resp.list, !.isLoading = FALSE]
    ELSE [p EXCEPT !.isLoading = FALSE]

\* state after IssueDetail.loadData's catch and finally blocks
IssueDetail_loadData_catch(p, r) == [p EXCEPT !.isLoading = FALSE]

IssueDetail_loadData_rejected(r) ==
    /\ r \in net /\ r.op = "IssueDetail.loadData"
    /\ issueDetail' = IssueDetail_loadData_catch(issueDetail, r)
    /\ net' = net \ {r}
    /\ last' = [op |-> "IssueDetail.loadData.rejected",
                fx |-> <<Fx("console.error", "Failed to load issue:"),
                         Fx("toast.error", "Failed to load issue")>>,
                r |-> r]
    /\ UNCHANGED <<authVars, route, dashboard, projects, projectDetail, server>>

\* <textarea onChange={(e) => setNewComment(e.target.value)}>
IssueDetail_setNewComment(text) ==
    /\ IssueDetailShown
    /\ text # issueDetail.newComment
    /\ issueDetail' = [issueDetail EXCEPT !.newComment = text]
    /\ last' = [op |-> "IssueDetail.setNewComment", fx |-> <<>>]
    /\ UNCHANGED <<authVars, route, dashboard, projects, projectDetail, server, net>>

\* mutant: the Post Comment button is disabled only for a blank comment
IssueDetail_canSubmit_WhileSubmitting == Trim(issueDetail.newComment) # ""

\* the Post Comment button is enabled
IssueDetail_canSubmit ==
    ~(issueDetail.isSubmitting \/ Trim(issueDetail.newComment) = "")

\* handleSubmitComment up to `await commentService.createComment(...)`
IssueDetail_handleSubmitComment ==
    /\ IssueDetailShown
    /\ IssueDetail_canSubmit
    /\ Trim(issueDetail.newComment) # ""
    /\ Room(1)
    /\ issueDetail' = [issueDetail EXCEPT !.isSubmitting = TRUE]
    /\ net' = net \cup
              {Req(NewId, "IssueDetail.createComment", R_issue,
                   <<Part(commentService_createComment([content |-> issueDetail.newComment]))>>,
                   NoCap)}
    /\ last' = [op |-> "IssueDetail.handleSubmitComment", fx |-> <<>>]
    /\ UNCHANGED <<authVars, route, dashboard, projects, projectDetail, server>>

IssueDetail_createComment_resolved(r) ==
    /\ r \in net /\ r.op = "IssueDetail.createComment" /\ AllServed(r)
    /\ issueDetail' = [issueDetail EXCEPT !.newComment = "", !.isSubmitting = FALSE]
    /\ net' = (net \ {r}) \cup {IssueDetail_loadData(NewIdAfter(r))}
    /\ last' = [op |-> "IssueDetail.createComment.resolved",
                fx |-> <<Fx("toast.success", "Comment added")>>]
    /\ UNCHANGED <<authVars, route, dashboard, projects, projectDetail, server>>

\* mutant: the catch block reloads the page's data
IssueDetail_createComment_catchSends_Reload(id) == {IssueDetail_loadData(id)}

\* requests handleSubmitComment's catch block sends: none
IssueDetail_createComment_catchSends(id) == {}

IssueDetail_createComment_rejected(r) ==
    /\ r \in net /\ r.op = "IssueDetail.createComment"
    /\ issueDetail' = [issueDetail EXCEPT !.isSubmitting = FALSE]
    /\ net' = (net \ {r}) \cup IssueDetail_createComment_catchSends(NewIdAfter(r))
    /\ last' = [op |-> "IssueDetail.createComment.rejected",
                fx |-> <<Fx("console.error", "Failed to add comment:"),
                         Fx("toast.error", "Failed to add comment")>>]
    /\ UNCHANGED <<authVars, route, dashboard, projects, projectDetail, server>>

\* position of a status in the workflow open, in_progress, resolved, closed
StatusRank(st) ==
    CASE st = "open" -> 1 [] st = "in_progress" -> 2 [] st = "resolved" -> 3 [] OTHER -> 4

\* mutant: the handler refuses to move an issue backwards in the workflow
IssueDetail_handleStatusChange_Forward(newStatus) ==
    /\ IssueDetailShown
    /\ newStatus # issueDetail.issue.status
    /\ StatusRank(newStatus) >= StatusRank(issueDetail.issue.status)
    /\ Room(1)
    /\ net' = net \cup
              {Req(NewId, "IssueDetail.updateIssue", R_issue,
                   <<Part(issueService_updateIssue(<<<<"status", newStatus>>>>))>>, NoCap)}
    /\ last' = [op |-> "IssueDetail.handleStatusChange", fx |-> <<>>]
    /\ UNCHANGED <<authVars, route, pageVars, server>>

\* <select value={issue.status} onChange={...}> with its four options: the
\* change event comes with an option other than the one selected; then
\* handleStatusChange up to `await issueService.updateIssue(...)`
IssueDetail_handleStatusChange(newStatus) ==
    /\ IssueDetailShown
    /\ newStatus # issueDetail.issue.status
    /\ Room(1)
    /\ net' = net \cup
              {Req(NewId, "IssueDetail.updateIssue", R_issue,
                   <<Part(issueService_updateIssue(<<<<"status", newStatus>>>>))>>, NoCap)}
    /\ last' = [op |-> "IssueDetail.handleStatusChange", fx |-> <<>>]
    /\ UNCHANGED <<authVars, route, pageVars, server>>

IssueDetail_updateIssue_resolved(r) ==
    /\ r \in net /\ r.op = "IssueDetail.updateIssue" /\ AllServed(r)
    /\ net' = (net \ {r}) \cup {IssueDetail_loadData(NewIdAfter(r))}
    /\ last' = [op |-> "IssueDetail.updateIssue.resolved",
                fx |-> <<Fx("toast.success", "Status updated")>>]
    /\ UNCHANGED <<authVars, route, pageVars, server>>

IssueDetail_updateIssue_rejected(r) ==
    /\ r \in net /\ r.op = "IssueDetail.updateIssue"
    /\ net' = net \ {r}
    /\ last' = [op |-> "IssueDetail.updateIssue.rejected",
                fx |-> <<Fx("console.error", "Failed to update status:"),
                         Fx("toast.error", "Failed to update status")>>]
    /\ UNCHANGED <<authVars, route, pageVars, server>>

----------------------------------------------------------------------------
(* Projects *)

\* what the user can have typed into the New Project form
ProjectForms == {ProjectFormInitial, [name |-> "Alpha", description |-> "first"]}

\* the page is past its loading placeholder
ProjectsShown == route = R_projects /\ projects.mounted /\ ~projects.isLoading

Projects_loadProjects(id) ==
    Req(id, "Projects.loadProjects", R_projects,
        <<Part(projectService_getProjects)>>, NoCap)

\* useEffect(() => { loadProjects(); }, [])
Projects_mount ==
    /\ route = R_projects /\ ~projects.mounted
    /\ Room(1)
    /\ projects' = [projects EXCEPT !.mounted = TRUE]
    /\ net' = net \cup {Projects_loadProjects(NewId)}
    /\ last' = [op |-> "Projects.mount", fx |-> <<>>]
    /\ UNCHANGED <<authVars, route, dashboard, projectDetail, issueDetail, server>>

Projects_loadProjects_resolved(r) ==
    /\ r \in net /\ r.op = "Projects.loadProjects" /\ AllServed(r)
    /\ projects' = [projects EXCEPT !.projects = ResultsOr(r.parts[1].resp),
                                    !.isLoading = FALSE]
    /\ net' = net \ {r}
    /\ last' = [op |-> "Projects.loadProjects.resolved", fx |-> <<>>]
    /\ UNCHANGED <<authVars, route, dashboard, projectDetail, issueDetail, server>>

Projects_loadProjects_rejected(r) ==
    /\ r \in net /\ r.op = "Projects.loadProjects"
    /\ projects' = [projects EXCEPT !.isLoading = FALSE]
    /\ net' = net \ {r}
    /\ last' = [op |-> "Projects.loadProjects.rejected",
                fx |-> <<Fx("console.error", "Failed to load projects:"),
                         Fx("toast.error", "Failed to load projects")>>]
    /\ UNCHANGED <<authVars, route, dashboard, projectDetail, issueDetail, server>>

\* onClick={() => setShowModal(true)} / onClick={() => setShowModal(false)}
Projects_setShowModal(b) ==
    /\ ProjectsShown
    /\ projects.showModal # b
    /\ projects' = [projects EXCEPT !.showModal = b]
    /\ last' = [op |-> "Projects.setShowModal", fx |-> <<>>]
    /\ UNCHANGED <<authVars, route, dashboard, projectDetail, issueDetail, server, net>>

\* onChange={(e) => setFormData({ ...formData, name / description })}
Projects_setFormData(f) ==
    /\ ProjectsShown /\ projects.showModal
    /\ f # projects.formData
    /\ projects' = [projects EXCEPT !.formData = f]
    /\ last' = [op |-> "Projects.setFormData", fx |-> <<>>]
    /\ UNCHANGED <<authVars, route, dashboard, projectDetail, issueDetail, server, net>>

\* handleSubmit up to `await projectService.createProject(formData)`; the
\* form submits only with both required fields filled and the button enabled
Projects_handleSubmit ==
    /\ ProjectsShown /\ projects.showModal
    /\ ~projects.isSubmitting
    /\ projects.formData.name # "" /\ projects.formData.description # ""
    /\ Room(1)
    /\ projects' = [projects EXCEPT !.isSubmitting = TRUE]
    /\ net' = net \cup
              {Req(NewId, "Projects.createProject", R_projects,
                   <<Part(projectService_createProject(projects.formData))>>, NoCap)}
    /\ last' = [op |-> "Projects.handleSubmit", fx |-> <<>>]
    /\ UNCHANGED <<authVars, route, dashboard, projectDetail, issueDetail, server>>

Projects_createProject_resolved(r) ==
    /\ r \in net /\ r.op = "Projects.createProject" /\ AllServed(r)
    /\ projects' = [projects EXCEPT !.showModal = FALSE,
                                    !.formData = ProjectFormInitial,
                                    !.isSubmitting = FALSE]
    /\ net' = (net \ {r}) \cup {Projects_loadProjects(NewIdAfter(r))}
    /\ last' = [op |-> "Projects.createProject.resolved",
                fx |-> <<Fx("toast.success", "Project created successfully")>>]
    /\ UNCHANGED <<authVars, route, dashboard, projectDetail, issueDetail, server>>

Projects_createProject_rejected(r) ==
    /\ r \in net /\ r.op = "Projects.createProject"
    /\ projects' = [projects EXCEPT !.isSubmitting = FALSE]
    /\ net' = net \ {r}
    /\ last' = [op |-> "Projects.createProject.rejected",
                fx |-> <<Fx("console.error", "Failed to create project:"),
                         Fx("toast.error", "Failed to create project")>>]
    /\ UNCHANGED <<authVars, route, dashboard, projectDetail, issueDetail, server>>

----------------------------------------------------------------------------
(* ProjectDetail *)

\* what the user can have typed into the New Issue form
IssueForms ==
    {IssueFormInitial,
     [title |-> "Crash on save", description |-> "steps", priority |-> "medium",
      status |-> "open"],
     [title |-> "Crash on save", description |-> "steps", priority |-> "high",
      status |-> "in_progress"]}

\* what the user can type into the search box
SearchTexts == {"", "bug"}

\* the page is past its loading placeholder and its 'Project not found'
ProjectDetailShown ==
    /\ route = R_project /\ projectDetail.mounted
    /\ ~projectDetail.isLoading /\ ~projectDetail.project.null

ProjectDetail_loadProject(id) ==
    Req(id, "ProjectDetail.loadProject", R_project,
        <<Part(projectService_getProject)>>, NoCap)

\* loadIssues of the render in which currentPage = page and searchQuery = search
ProjectDetail_loadIssues(id, page, search) ==
    Req(id, "ProjectDetail.loadIssues", R_project,
        <<Part(issueService_getProjectIssues(page, search))>>,
        [page |-> page, search |-> search])

\* both effects of the first render
ProjectDetail_mount ==
    /\ route = R_project /\ ~projectDetail.mounted
    /\ Room(2)
    /\ projectDetail' = [projectDetail EXCEPT !.mounted = TRUE]
    /\ net' = net \cup
              {ProjectDetail_loadProject(Fresh(net, 1)),
               ProjectDetail_loadIssues(Fresh(net, 2), projectDetail.currentPage,
                                        projectDetail.searchQuery)}
    /\ last' = [op |-> "ProjectDetail.mount", fx |-> <<>>]
    /\ UNCHANGED <<authVars, route, dashboard, projects, issueDetail, server>>

ProjectDetail_loadProject_resolved(r) ==
    /\ r \in net /\ r.op = "ProjectDetail.loadProject" /\ AllServed(r)
    /\ projectDetail' = [projectDetail EXCEPT !.project = r.parts[1].resp.project,
                                              !.isLoading = FALSE]
    /\ net' = net \ {r}
    /\ last' = [op |-> "ProjectDetail.loadProject.resolved", fx |-> <<>>]
    /\ UNCHANGED <<authVars, route, dashboard, projects, issueDetail, server>>

ProjectDetail_loadProject_rejected(r) ==
    /\ r \in net /\ r.op = "ProjectDetail.loadProject"
    /\ projectDetail' = [projectDetail EXCEPT !.isLoading = FALSE]
    /\ net' = net \ {r}
    /\ last' = [op |-> "ProjectDetail.loadProject.rejected",
                fx |-> <<Fx("console.error", "Failed to load project:"),
                         Fx("toast.error", "Failed to load project")>>]
    /\ UNCHANGED <<authVars, route, dashboard, projects, issueDetail, server>>

\* Math.ceil(a / b) for a >= 0, b > 0
Math_ceil(a, b) == IF a % b = 0 THEN a \div b ELSE a \div b + 1

\* `issuesData.pagination?.count || 0`
CountOr(resp) ==
    IF resp.hasPagination /\ resp.hasCount /\ resp.count # 0 THEN resp.count ELSE 0

\* mutant: the number of pages is rounded down
ProjectDetail_totalPagesOf_Floor(resp) == CountOr(resp) \div PageSize

\* Math.ceil((issuesData.pagination?.count || 0) / 20)
ProjectDetail_totalPagesOf(resp) == Math_ceil(CountOr(resp), PageSize)

ProjectDetail_loadIssues_resolved(r) ==
    /\ r \in net /\ r.op = "ProjectDetail.loadIssues" /\ AllServed(r)
    /\ projectDetail' =
          [projectDetail EXCEPT !.issues = ResultsOr(r.parts[1].resp),
                                !.totalPages = ProjectDetail_totalPagesOf(r.parts[1].resp)]
    /\ net' = net \ {r}
    /\ last' = [op |-> "ProjectDetail.loadIssues.resolved", fx |-> <<>>, r |-> r]
    /\ UNCHANGED <<authVars, route, dashboard, projects, issueDetail, server>>

ProjectDetail_loadIssues_rejected(r) ==
    /\ r \in net /\ r.op = "ProjectDetail.loadIssues"
    /\ net' = net \ {r}
    /\ last' = [op |-> "ProjectDetail.loadIssues.rejected",
                fx |-> <<Fx("console.error", "Failed to load issues:"),
                         Fx("toast.error", "Failed to load issues")>>]
    /\ UNCHANGED <<authVars, route, pageVars, server>>

\* the requests the effect on [id, currentPage, searchQuery] sends when a
\* render changes the page state from p to q: loadIssues of the new render
ProjectDetail_effect(n, p, q) ==
    IF q.currentPage # p.currentPage \/ q.searchQuery # p.searchQuery
    THEN {ProjectDetail_loadIssues(Fresh(n, 1), q.currentPage, q.searchQuery)}
    ELSE {}

\* onChange={(e) => setSearchInput(e.target.value)}
ProjectDetail_setSearchInput(text) ==
    /\ ProjectDetailShown
    /\ text # projectDetail.searchInput
    /\ projectDetail' = [projectDetail EXCEPT !.searchInput = text]
    /\ last' = [op |-> "ProjectDetail.setSearchInput", fx |-> <<>>]
    /\ UNCHANGED <<authVars, route, dashboard, projects, issueDetail, server, net>>

\* mutant: handleSearch leaves currentPage as it is
ProjectDetail_handleSearch_KeepsPage ==
    /\ ProjectDetailShown
    /\ LET q == [projectDetail EXCEPT !.searchQuery = projectDetail.searchInput]
       IN  /\ Room(Cardinality(ProjectDetail_effect(net, projectDetail, q)))
           /\ projectDetail' = q
           /\ net' = net \cup ProjectDetail_effect(net, projectDetail, q)
    /\ last' = [op |-> "ProjectDetail.handleSearch", fx |-> <<>>]
    /\ UNCHANGED <<authVars, route, dashboard, projects, issueDetail, server>>

\* handleSearch, and the effect its state change triggers
ProjectDetail_handleSearch ==
    /\ ProjectDetailShown
    /\ LET q == [projectDetail EXCEPT !.searchQuery = projectDetail.searchInput,
                                      !.currentPage = 1]
       IN  /\ Room(Cardinality(ProjectDetail_effect(net, projectDetail, q)))
           /\ projectDetail' = q
           /\ net' = net \cup ProjectDetail_effect(net, projectDetail, q)
    /\ last' = [op |-> "ProjectDetail.handleSearch", fx |-> <<>>]
    /\ UNCHANGED <<authVars, route, dashboard, projects, issueDetail, server>>

\* the pages the pagination controls offer: Previous unless on page 1, Next
\* unless on the last page, and one button per page
ProjectDetail_pageButtons ==
    IF projectDetail.issues.len > 0 /\ projectDetail.totalPages > 1
    THEN (1..projectDetail.totalPages)
            \cup (IF projectDetail.currentPage = 1
                  THEN {} ELSE {projectDetail.currentPage - 1})
            \cup (IF projectDetail.currentPage = projectDetail.totalPages
                  THEN {} ELSE {projectDetail.currentPage + 1})
    ELSE {}

\* handlePageChange, and the effect its state change triggers
ProjectDetail_handlePageChange(page) ==
    /\ ProjectDetailShown
    /\ page \in ProjectDetail_pageButtons
    /\ page <= MaxPage
    /\ LET q == [projectDetail EXCEPT !.currentPage = page]
       IN  /\ Room(Cardinality(ProjectDetail_effect(net, projectDetail, q)))
           /\ projectDetail' = q
           /\ net' = net \cup ProjectDetail_effect(net, projectDetail, q)
    /\ last' = [op |-> "ProjectDetail.handlePageChange", fx |-> <<>>]
    /\ UNCHANGED <<authVars, route, dashboard, projects, issueDetail, server>>

ProjectDetail_setShowModal(b) ==
    /\ ProjectDetailShown
    /\ projectDetail.showModal # b
    /\ projectDetail' = [projectDetail EXCEPT !.showModal = b]
    /\ last' = [op |-> "ProjectDetail.setShowModal", fx |-> <<>>]
    /\ UNCHANGED <<authVars, route, dashboard, projects, issueDetail, server, net>>

ProjectDetail_setFormData(f) ==
    /\ ProjectDetailShown /\ projectDetail.showModal
    /\ f # projectDetail.formData
    /\ projectDetail' = [projectDetail EXCEPT !.formData = f]
    /\ last' = [op |-> "ProjectDetail.setFormData", fx |-> <<>>]
    /\ UNCHANGED <<authVars, route, dashboard, projects, issueDetail, server, net>>

\* handleSubmit up to `await issueService.createIssue(...)`; the request
\* remembers the currentPage and searchQuery of the handler's render
ProjectDetail_handleSubmit ==
    /\ ProjectDetailShown /\ projectDetail.showModal
    /\ ~projectDetail.isSubmitting
    /\ projectDetail.formData.title # "" /\ projectDetail.formData.description # ""
    /\ Room(1)
    /\ projectDetail' = [projectDetail EXCEPT !.isSubmitting = TRUE]
    /\ net' = net \cup
              {Req(NewId, "ProjectDetail.createIssue", R_project,
                   <<Part(issueService_createIssue(projectDetail.formData))>>,
                   [page |-> projectDetail.currentPage,
                    search |-> projectDetail.searchQuery])}
    /\ last' = [op |-> "ProjectDetail.handleSubmit", fx |-> <<>>]
    /\ UNCHANGED <<authVars, route, dashboard, projects, issueDetail, server>>

\* the rest of the try block: the setters, loadIssues() and loadProject() of
\* the handler's render, then the effect of the render with currentPage 1
ProjectDetail_createIssue_resolved(r) ==
    /\ r \in net /\ r.op = "ProjectDetail.createIssue" /\ AllServed(r)
    /\ LET q  == [projectDetail EXCEPT !.showModal = FALSE,
                                       !.formData = IssueFormInitial,
                                       !.currentPage = 1,
                                       !.isSubmitting = FALSE]
           n0 == net \ {r}
           n1 == n0 \cup {ProjectDetail_loadIssues(Fresh(n0, 1), r.cap.page, r.cap.search)}
           n2 == n1 \cup {ProjectDetail_loadProject(Fresh(n1, 1))}
       IN  /\ projectDetail' = q
           /\ net' = n2 \cup ProjectDetail_effect(n2, projectDetail, q)
    /\ last' = [op |-> "ProjectDetail.createIssue.resolved",
                fx |-> <<Fx("toast.success", "Issue created successfully")>>]
    /\ UNCHANGED <<authVars, route, dashboard, projects, issueDetail, server>>

ProjectDetail_createIssue_rejected(r) ==
    /\ r \in net /\ r.op = "ProjectDetail.createIssue"
    /\ projectDetail' = [projectDetail EXCEPT !.isSubmitting = FALSE]
    /\ net' = net \ {r}
    /\ last' = [op |-> "ProjectDetail.createIssue.rejected",
                fx |-> <<Fx("console.error", "Failed to create issue:"),
                         Fx("toast.error", "Failed to create issue")>>]
    /\ UNCHANGED <<authVars, route, dashboard, projects, issueDetail, server>>

----------------------------------------------------------------------------
(* The pages behind ProtectedRoute, one of them opened by a signed-in user *)

\* numbers of issues the project shown can start with
IssueCounts == {0, PageSize}

\* what the store can hold when the page at route rt is opened
ServerStores(rt) ==
    CASE rt = R_issue     -> {[ServerInitial EXCEPT !.status = st] : st \in IssueStatus}
      [] rt = R_project   -> {[ServerInitial EXCEPT !.issues = n] : n \in IssueCounts}
      [] rt = R_dashboard -> {[ServerInitial EXCEPT !.projects = n, !.myIssues = m] :
                                 n \in {0, 1}, m \in {0, PageSize + 1}}
      [] OTHER            -> {ServerInitial}

SignedIn ==
    /\ auth = [user |-> "alice", token |-> "tokA", isLoading |-> FALSE, phase |-> "ready"]
    /\ localStorage = StoreSession([access_token |-> NULL, user |-> NULL], "alice", "tokA")
    /\ login = LoginInitial
    /\ register = RegisterInitial

InitPages ==
    /\ SignedIn
    /\ route \in PageRoutes
    /\ dashboard = DashboardInitial
    /\ projects = ProjectsInitial
    /\ projectDetail = ProjectDetailInitial
    /\ issueDetail = IssueDetailInitial
    /\ server \in ServerStores(route)
    /\ net = {}
    /\ last = [op |-> "load", fx |-> <<>>]

NextDashboard ==
    \/ Dashboard_mount
    \/ \E r \in net : Dashboard_loadData_resolved(r)
    \/ \E r \in net : Dashboard_loadData_rejected(r)

NextProjects ==
    \/ Projects_mount
    \/ \E r \in net : Projects_loadProjects_resolved(r)
    \/ \E r \in net : Projects_loadProjects_rejected(r)
    \/ \E b \in BOOLEAN : Projects_setShowModal(b)
    \/ \E f \in ProjectForms : Projects_setFormData(f)
    \/ Projects_handleSubmit
    \/ \E r \in net : Projects_createProject_resolved(r)
    \/ \E r \in net : Projects_createProject_rejected(r)

NextProjectDetail ==
    \/ \E r \in net : ProjectDetail_loadProject_resolved(r)
    \/ \E r \in net : ProjectDetail_loadProject_rejected(r)
    \/ \E r \in net : ProjectDetail_loadIssues_resolved(r)
    \/ \E r \in net : ProjectDetail_loadIssues_rejected(r)
    \/ \E text \in SearchTexts : ProjectDetail_setSearchInput(text)
    \/ ProjectDetail_handleSearch
    \/ \E page \in 1..MaxPage : ProjectDetail_handlePageChange(page)
    \/ \E b \in BOOLEAN : ProjectDetail_setShowModal(b)
    \/ \E f \in IssueForms : ProjectDetail_setFormData(f)
    \/ ProjectDetail_handleSubmit
    \/ \E r \in net : ProjectDetail_createIssue_resolved(r)
    \/ \E r \in net : ProjectDetail_createIssue_rejected(r)

NextIssueDetail ==
    \/ IssueDetail_mount
    \/ \E r \in net : IssueDetail_loadData_resolved(r)
    \/ \E r \in net : IssueDetail_loadData_rejected(r)
    \/ \E text \in CommentTexts : IssueDetail_setNewComment(text)
    \/ IssueDetail_handleSubmitComment
    \/ \E r \in net : IssueDetail_createComment_resolved(r)
    \/ \E r \in net : IssueDetail_createComment_rejected(r)
    \/ \E newStatus \in IssueStatus : IssueDetail_handleStatusChange(newStatus)
    \/ \E r \in net : IssueDetail_updateIssue_resolved(r)
    \/ \E r \in net : IssueDetail_updateIssue_rejected(r)

NextServer == \E r \in net : \E i \in DOMAIN r.parts : Serve(r, i)

NextPages ==
    \/ NextDashboard
    \/ NextProjects
    \/ ProjectDetail_mount
    \/ NextProjectDetail
    \/ NextIssueDetail
    \/ NextServer

SpecPages == InitPages /\ [][NextPages]_vars

----------------------------------------------------------------------------
(* ProjectDetail once its project is loaded and the answer to the first
   loadIssues has been produced, for a user who pages and searches *)

\* which of the envelope's optional members an answer carries
\* (ApiResponse: results?, pagination?)
AnswerShapes ==
    { [hasResults |-> a, hasPagination |-> b, hasCount |-> c] :
        a \in BOOLEAN, b \in BOOLEAN, c \in BOOLEAN } \ 
    { [hasResults |-> a, hasPagination |-> FALSE, hasCount |-> TRUE] : a \in BOOLEAN }

\* the answer resp without the members its shape leaves out
Shaped(resp, shape) ==
    [resp EXCEPT !.hasResults = shape.hasResults,
                 !.results = IF shape.hasResults THEN @ ELSE NoEntities,
                 !.hasPagination = shape.hasPagination,
                 !.hasCount = shape.hasCount,
                 !.count = IF shape.hasCount THEN @ ELSE 0]

InitPagination ==
    /\ SignedIn
    /\ route = R_project
    /\ dashboard = DashboardInitial
    /\ projects = ProjectsInitial
    /\ issueDetail = IssueDetailInitial
    /\ \E n \in 0..MaxCount, shape \in AnswerShapes :
          LET r == ProjectDetail_loadIssues(1, 1, "")
          IN  /\ server = [ServerInitial EXCEPT !.issues = n]
              /\ projectDetail = [ProjectDetailInitial EXCEPT !.mounted = TRUE,
                                                              !.isLoading = FALSE,
                                                              !.project = ProjectOf(n)]
              /\ net = {[r EXCEPT !.parts[1].st = "served",
                                  !.parts[1].resp =
                                      Shaped(ServerAnswer(r.parts[1].http, server), shape)]}
    /\ last = [op |-> "load", fx |-> <<>>]

NextPagination ==
    \/ \E r \in net : ProjectDetail_loadIssues_resolved(r)
    \/ \E r \in net : ProjectDetail_loadIssues_rejected(r)
    \/ \E text \in SearchTexts : ProjectDetail_setSearchInput(text)
    \/ ProjectDetail_handleSearch
    \/ \E page \in 1..MaxPage : ProjectDetail_handlePageChange(page)
    \/ NextServer

SpecPagination == InitPagination /\ [][NextPagination]_vars

----------------------------------------------------------------------------
(* Error handling and frame conditions: claims C5 - C7 (checked under SpecPages) *)

\* the steps in which a request of a page has failed
RejectedOps ==
    {"Dashboard.loadData.rejected", "Projects.loadProjects.rejected",
     "Projects.createProject.rejected", "ProjectDetail.loadProject.rejected",
     "ProjectDetail.loadIssues.rejected", "ProjectDetail.createIssue.rejected",
     "IssueDetail.loadData.rejected", "IssueDetail.createComment.rejected",
     "IssueDetail.updateIssue.rejected"}

\* C5: no error is silently swallowed.  Every step in which a request of a
\* page has failed shows at least one error toast to the user.
C5_EveryFailureToasts == last.op \in RejectedOps => HasFx("toast.error")

\* the steps in which a mutation has failed
FailedMutationOps ==
    {"Projects.createProject.rejected", "ProjectDetail.createIssue.rejected",
     "IssueDetail.createComment.rejected", "IssueDetail.updateIssue.rejected"}

\* C6: a failed mutation leaves prior UI state intact.  The step in which
\* createProject, createIssue, createComment or updateIssue(status) has failed
\* changes none of: the displayed projects, project, issues, issue and
\* comments, the form contents (formData, newComment), the modal flags,
\* currentPage (nor totalPages and the search state); and it sends no request
\* (the requests in flight after the step were all in flight before it).
C6_FailedMutationKeepsState ==
    [][ last'.op \in FailedMutationOps =>
          /\ projects'.projects = projects.projects
          /\ projects'.formData = projects.formData
          /\ projects'.showModal = projects.showModal
          /\ projectDetail'.project = projectDetail.project
          /\ projectDetail'.issues = projectDetail.issues
          /\ projectDetail'.formData = projectDetail.formData
          /\ projectDetail'.showModal = projectDetail.showModal
          /\ projectDetail'.currentPage = projectDetail.currentPage
          /\ projectDetail'.totalPages = projectDetail.totalPages
          /\ projectDetail'.searchQuery = projectDetail.searchQuery
          /\ projectDetail'.searchInput = projectDetail.searchInput
          /\ issueDetail'.issue = issueDetail.issue
          /\ issueDetail'.comments = issueDetail.comments
          /\ issueDetail'.newComment = issueDetail.newComment
          /\ dashboard' = dashboard
          /\ net' \subseteq net ]_vars

\* a createIssue has just failed on page 2 with the modal open and the form
\* filled in; all of it is still there
C6_Witness ==
    /\ last.op = "ProjectDetail.createIssue.rejected"
    /\ projectDetail.showModal
    /\ projectDetail.formData # IssueFormInitial
    /\ projectDetail.currentPage = 2
    /\ projectDetail.issues.len > 0

\* C7: a failed page load is all-or-nothing.  The step in which
\* Dashboard.loadData or IssueDetail.loadData has failed (either of its two
\* parallel requests failing) changes neither projects nor myIssues, neither
\* issue nor comments, even when the other request had been answered.
C7_FailedLoadAllOrNothing ==
    [][ last'.op \in {"Dashboard.loadData.rejected", "IssueDetail.loadData.rejected"} =>
          /\ dashboard'.projects = dashboard.projects
          /\ dashboard'.myIssues = dashboard.myIssues
          /\ issueDetail'.issue = issueDetail.issue
          /\ issueDetail'.comments = issueDetail.comments ]_vars

\* IssueDetail.loadData has just failed on getIssue although getComments had
\* been answered with a list that is not the one shown; the one shown stays
C7_Witness ==
    /\ last.op = "IssueDetail.loadData.rejected"
    /\ last.r.parts[1].st = "sent"
    /\ last.r.parts[2].st = "served"
    /\ last.r.parts[2].resp.list # issueDetail.comments
    /\ ~issueDetail.issue.null

----------------------------------------------------------------------------
(* Pagination and search: claims C8, C9 (checked under SpecPagination) *)

\* the count an answer to loadIssues carries: pagination.count, 0 when the
\* pagination block or the count is not there
CountOf(resp) == IF resp.hasPagination /\ resp.hasCount THEN resp.count ELSE 0

\* C8: pagination arithmetic.  After every successful loadIssues, totalPages
\* is the least number of pages of 20 that hold the N issues the answer
\* counts, that is ceil(N/20): totalPages * 20 >= N > (totalPages - 1) * 20,
\* with N = 0 when the answer has no pagination block or no count.
C8_TotalPages ==
    last.op = "ProjectDetail.loadIssues.resolved" =>
        LET N == CountOf(last.r.parts[1].resp)
        IN  /\ projectDetail.totalPages * 20 >= N
            /\ (projectDetail.totalPages - 1) * 20 < N

\* 21 issues counted: 2 pages
C8_Witness ==
    /\ last.op = "ProjectDetail.loadIssues.resolved"
    /\ CountOf(last.r.parts[1].resp) = 21
    /\ projectDetail.totalPages = 2

\* C9: empty search returns all.  Every getProjectIssues request carries the
\* 'page' parameter with the page asked for, and carries the 'search'
\* parameter (with the search text) if and only if the search text is not
\* empty.
C9_SearchParam ==
    \A r \in net :
        r.op = "ProjectDetail.loadIssues" =>
            LET h == r.parts[1].http
            IN  /\ h.method = "GET" /\ h.path = P_issues
                /\ Get(h.query, "page") = ToString(r.cap.page)
                /\ HasKey(h.query, "search") <=> r.cap.search # ""
                /\ r.cap.search # "" => Get(h.query, "search") = r.cap.search

\* page 2 of the unfiltered list is being asked for, with no 'search' parameter
C9_Witness ==
    \E r \in net :
        /\ r.op = "ProjectDetail.loadIssues"
        /\ r.cap.search = "" /\ r.cap.page = 2
        /\ r.parts[1].http.query = <<<<"page", "2">>>>

----------------------------------------------------------------------------
(* Issue status: claim C10 (checked under SpecPages) *)

\* C10: issue status has no enforced order.  Whenever the IssueDetail page
\* shows an issue (and the network takes one more request), the user can
\* move it to each of the four statuses whatever the status shown is
\* (choosing the status it already shows is no change and sends nothing);
\* every update request in flight carries exactly the status chosen, one of
\* the four; and the status shown is always one of the four.
C10_NoEnforcedOrder ==
    /\ (IssueDetailShown /\ Room(1)) =>
          \A s \in IssueStatus \ {issueDetail.issue.status} :
              ENABLED IssueDetail_handleStatusChange(s)
    /\ \A r \in net :
          r.op = "IssueDetail.updateIssue" =>
              /\ Len(r.parts[1].http.body) = 1
              /\ r.parts[1].http.body[1][1] = "status"
              /\ r.parts[1].http.body[1][2] \in IssueStatus
    /\ ~issueDetail.issue.null => issueDetail.issue.status \in IssueStatus

\* the page shows 'closed' and the user's request to go back to 'open' has
\* been sent and applied
C10_Witness ==
    /\ IssueDetailShown
    /\ issueDetail.issue.status = "closed"
    /\ server.status = "open"
    /\ \E r \in net :
          /\ r.op = "IssueDetail.updateIssue" /\ AllServed(r)
          /\ Get(r.parts[1].http.body, "status") = "open"

----------------------------------------------------------------------------
(* Requests and their effect on the store: claims C11 and following *)

\* the keys a query string or JSON body carries
Keys(kv) == {kv[i][1] : i \in 1..Len(kv)}

\* C11: partial update leaves unspecified fields unchanged.  Every update
\* request that handleStatusChange has sent is a PATCH of the issue whose body
\* carries the 'status' field and nothing else (no title, description,
\* priority or assignee_id); and with status changes the only writes, the
\* stored title and priority of the issue are the ones it had when the page
\* was opened.
C11_StatusOnlyPatch ==
    /\ \A r \in net :
          r.op = "IssueDetail.updateIssue" =>
              /\ r.parts[1].http.method = "PATCH"
              /\ r.parts[1].http.path = P_issue
              /\ Keys(r.parts[1].http.body) = {"status"}
    /\ route = R_issue =>
          /\ server.title = ServerInitial.title
          /\ server.priority = ServerInitial.priority

\* a status change has been applied by the server (the page still shows the
\* status from before) and title and priority are as they were
C11_Witness ==
    /\ IssueDetailShown
    /\ \E r \in net :
          /\ r.op = "IssueDetail.updateIssue" /\ AllServed(r)
          /\ server.status = Get(r.parts[1].http.body, "status")
          /\ server.status # issueDetail.issue.status
    /\ server.title = "Crash on save" /\ server.priority = "high"

\* texts that are empty or consist only of whitespace
Blank == {"", " "}

\* C12: comment content must be non-empty.  No createComment request in
\* flight has a content that is empty or only whitespace; and while the
\* comment box holds such a text the form cannot be submitted at all.
C12_NoBlankComment ==
    /\ \A r \in net :
          r.op = "IssueDetail.createComment" =>
              Get(r.parts[1].http.body, "content") \notin Blank
    /\ issueDetail.newComment \in Blank => ~ENABLED IssueDetail_handleSubmitComment

\* the user has typed a blank into the comment box of a page that could
\* otherwise send a comment, and nothing has been sent
C12_Witness ==
    /\ IssueDetailShown /\ Room(1) /\ ~issueDetail.isSubmitting
    /\ issueDetail.newComment = " "
    /\ \A r \in net : r.op # "IssueDetail.createComment"
    /\ last.op = "IssueDetail.setNewComment"

\* The issue page used only for commenting, on a network where no request
\* fails: the user types and submits comments, the server answers every
\* request, and the responses arrive in any order.
InitComments ==
    /\ InitPages
    /\ route = R_issue

NextComments ==
    \/ IssueDetail_mount
    \/ \E r \in net : IssueDetail_loadData_resolved(r)
    \/ \E text \in CommentTexts : IssueDetail_setNewComment(text)
    \/ IssueDetail_handleSubmitComment
    \/ \E r \in net : IssueDetail_createComment_resolved(r)
    \/ NextServer

SpecComments == InitComments /\ [][NextComments]_vars

\* C13: comment count stays consistent after a create.  When a comment has
\* been stored, no request is in flight any more and the last thing that
\* happened is a reload of the page's data arriving, the number of comments
\* shown in the 'Comments (n)' heading is the number of comments stored.
C13_CommentCountConsistent ==
    (/\ route = R_issue
     /\ server.comments > 0
     /\ net = {}
     /\ last.op = "IssueDetail.loadData.resolved")
        => Len(issueDetail.comments) = server.comments

\* C14: a successful login or registration establishes the session.  In the
\* step in which authService.login or authService.register resolves with
\* user u and access token t, the context's user and token become u and t,
\* localStorage 'access_token' holds t and 'user' holds the JSON text of u,
\* isAuthenticated is true, and the page navigates to /dashboard.
C14_SessionEstablished ==
    [][ \A r \in net, u \in Users, t \in Tokens :
          (LoginResolved(r, u, t) \/ RegisterResolved(r, u, t)) =>
             /\ auth'.user = u /\ auth'.token = t
             /\ localStorage'.access_token = t
             /\ localStorage'.user = JSONstringify(u)
             /\ JSONparse(localStorage'.user) = u
             /\ isAuthenticated'
             /\ route' = "/dashboard"
             /\ \E i \in 1..Len(last'.fx) : last'.fx[i] = Fx("navigate", "/dashboard") ]_vars

\* a registration has just succeeded for a user and token that localStorage
\* never held when the page was loaded
C14_Witness ==
    /\ last.op = "register.resolved"
    /\ auth.user = "bob" /\ auth.token = "tokB"
    /\ localStorage = [access_token |-> "tokB", user |-> "{bob}"]
    /\ route = "/dashboard"

\* the create-issue requests in flight
CreateIssueRequests(n) == {r \in n : r.op = "ProjectDetail.createIssue"}

\* C15: issue creation defaults.  The form starts from title '',
\* description '', priority 'medium', status 'open'; it changes only when
\* the user edits it or when it is put back to these defaults; the request
\* handleSubmit sends carries the form's four values as they are at that
\* moment (so status 'open' and priority 'medium' unless the user selected
\* others); and the step in which a creation succeeds puts the form back to
\* the defaults.
C15_CreateIssueDefaults ==
    [][ /\ (projectDetail'.formData # projectDetail.formData =>
               \/ last'.op = "ProjectDetail.setFormData"
               \/ projectDetail'.formData = IssueFormInitial)
        /\ (last'.op = "ProjectDetail.handleSubmit" =>
               \E r \in CreateIssueRequests(net') \ net :
                  LET body == r.parts[1].http.body
                  IN  /\ r.parts[1].http.method = "POST"
                      /\ Keys(body) = {"title", "description", "priority", "status"}
                      /\ \A k \in Keys(body) : Get(body, k) = projectDetail.formData[k])
        /\ (last'.op = "ProjectDetail.createIssue.resolved" =>
               projectDetail'.formData = IssueFormInitial) ]_vars

\* a second issue is being created with the untouched defaults 'medium' and
\* 'open', after the server stored a first one
C15_Witness ==
    /\ route = R_project
    /\ server.created = 1
    /\ last.op = "ProjectDetail.handleSubmit"
    /\ \E r \in CreateIssueRequests(net) :
          /\ Get(r.parts[1].http.body, "priority") = "medium"
          /\ Get(r.parts[1].http.body, "status") = "open"

\* C16: the Dashboard's numbers are the true counts.  Once the Dashboard has
\* loaded its data, 'Total Projects' (projects.length) is the number of
\* projects the user can access and 'My Issues' (myIssues.length) is the
\* number of issues assigned to the user, also when there are more of them
\* than one page of results holds.
C16_DashboardCounts ==
    (/\ route = R_dashboard
     /\ ~dashboard.isLoading
     /\ last.op = "Dashboard.loadData.resolved")
        => /\ dashboard.projects.len = server.projects
           /\ dashboard.myIssues.len = server.myIssues

\* C17: adding a comment is a POST to the comments collection.  Every
\* request a comment submission sends is a POST whose path is
\* /projects/{projectId}/issues/{issueId}/comments/, the path that the page's
\* GET of the comments reads.
C17_CommentPostPath ==
    \A r \in net : r.op = "IssueDetail.createComment" =>
        /\ r.parts[1].http.method = "POST"
        /\ r.parts[1].http.path = P_comments
        /\ r.parts[1].http.path = commentService_getComments.path

----------------------------------------------------------------------------
(* projectService.updateProject, called with every partial body *)

ProjectNames == {"Alpha", "Beta"}

ProjectDescriptions == {"first", "second"}

\* Partial<CreateProjectData>: any subset of name and description
PartialProjectData ==
    {<<>>}
    \cup {<<<<"name", n>>>> : n \in ProjectNames}
    \cup {<<<<"description", d>>>> : d \in ProjectDescriptions}
    \cup {<<<<"name", n>>, <<"description", d>>>> :
             n \in ProjectNames, d \in ProjectDescriptions}

\* updateProject up to `await api.put(...)`
ProjectService_updateProject(data) ==
    /\ route = R_project
    /\ Room(1)
    /\ net' = net \cup {Req(NewId, "projectService.updateProject", R_project,
                            <<Part(projectService_updateProject(data))>>, NoCap)}
    /\ last' = [op |-> "projectService.updateProject", fx |-> <<>>]
    /\ UNCHANGED <<authVars, route, pageVars, server>>

\* `return response.data`
ProjectService_updateProject_resolved(r) ==
    /\ r \in net /\ r.op = "projectService.updateProject" /\ AllServed(r)
    /\ net' = net \ {r}
    /\ last' = [op |-> "projectService.updateProject.resolved", fx |-> <<>>]
    /\ UNCHANGED <<authVars, route, pageVars, server>>

\* the request fails: the promise updateProject returned rejects
ProjectService_updateProject_rejected(r) ==
    /\ r \in net /\ r.op = "projectService.updateProject"
    /\ net' = net \ {r}
    /\ last' = [op |-> "projectService.updateProject.rejected",
                fx |-> <<Fx("throw", "error")>>]
    /\ UNCHANGED <<authVars, route, pageVars, server>>

InitProjectService ==
    /\ InitPages
    /\ route = R_project

NextProjectService ==
    \/ \E data \in PartialProjectData : ProjectService_updateProject(data)
    \/ \E r \in net : ProjectService_updateProject_resolved(r)
    \/ \E r \in net : ProjectService_updateProject_rejected(r)
    \/ NextServer

SpecProjectService == InitProjectService /\ [][NextProjectService]_vars

\* C18: updating a project is a PATCH.  Every request updateProject sends is
\* a PATCH to /projects/{id}/, and a body with any subset of name and
\* description changes only the fields it supplies: a project that has a
\* name and a description keeps a value for both.
C18_UpdateProjectPatch ==
    /\ \A r \in net : r.op = "projectService.updateProject" =>
          /\ r.parts[1].http.method = "PATCH"
          /\ r.parts[1].http.path = P_project
    /\ server.name # NULL
    /\ server.description # NULL

----------------------------------------------------------------------------
(* Session invariants: claims C19, C20 (checked under SpecAuth) *)

\* C19: the in-memory session mirrors localStorage.  When the mount effect
\* has run and no request is in flight, the context's token is non-null if
\* and only if localStorage holds 'access_token', and then the two are
\* equal; and the context's user is non-null if and only if localStorage
\* holds 'user', and then 'user' is the JSON text of the context's user.
C19_SessionMirrorsStorage ==
    (auth.phase = "ready" /\ net = {}) =>
        /\ auth.token # NULL <=> Present(localStorage.access_token)
        /\ auth.token # NULL => auth.token = localStorage.access_token
        /\ auth.user # NULL <=> Present(localStorage.user)
        /\ auth.user # NULL => JSONstringify(auth.user) = localStorage.user

\* C20: user and token are null together.  In every state the context's
\* user is null if and only if its token is null, so that isAuthenticated is
\* true exactly when a user object is available.
C20_UserIffToken ==
    /\ auth.user = NULL <=> auth.token = NULL
    /\ isAuthenticated <=> auth.user # NULL

----------------------------------------------------------------------------
(* Route protection and logout: claims C21, C22 (checked under SpecAuth) *)

\* C21: ProtectedRoute guards its children.  On a protected route the
\* children are rendered only when isLoading is false and the token is
\* non-null; while isLoading is true the loading placeholder is rendered;
\* when isLoading is false and the token is null the route redirects to
\* /login; and the Logout button, which is part of the protected content,
\* cannot be used in a state where the token is null.
C21_ProtectedRouteGuards ==
    /\ ProtectedRouteMounted =>
          /\ ProtectedRoute = "children" => (~auth.isLoading /\ auth.token # NULL)
          /\ auth.isLoading => ProtectedRoute = "Loading..."
          /\ (~auth.isLoading /\ auth.token = NULL) => ProtectedRoute = "Navigate"
    /\ ENABLED Logout => auth.token # NULL
    /\ last.op = "ProtectedRoute.Navigate" => route = "/login"

\* the redirect has happened: a signed-out user who opened /dashboard is on
\* /login after the mount effect
C21_Witness ==
    /\ last.op = "ProtectedRoute.Navigate"
    /\ route = "/login"
    /\ ~auth.isLoading /\ auth.token = NULL

\* C22: logout is final until a new sign-in is started.  When the step
\* right after a call of logout() is the arrival of a successful login or
\* register response (a request that was already in flight when logout()
\* was called, since no sign-in was started in between), the session is not
\* re-established: isAuthenticated stays false and localStorage stays
\* without 'access_token' and 'user'.
C22_LogoutIsFinal ==
    [][ (/\ last.op = "logout"
         /\ last'.op \in {"login.resolved", "register.resolved"})
            => /\ ~isAuthenticated'
               /\ localStorage'.access_token = NULL
               /\ localStorage'.user = NULL ]_vars

----------------------------------------------------------------------------
(* ProjectDetail on a network where no request fails *)

InitIssueList ==
    /\ InitPages
    /\ route = R_project

NextIssueList ==
    \/ ProjectDetail_mount
    \/ \E r \in net : ProjectDetail_loadProject_resolved(r)
    \/ \E r \in net : ProjectDetail_loadIssues_resolved(r)
    \/ \E text \in SearchTexts : ProjectDetail_setSearchInput(text)
    \/ ProjectDetail_handleSearch
    \/ \E page \in 1..MaxPage : ProjectDetail_handlePageChange(page)
    \/ \E b \in BOOLEAN : ProjectDetail_setShowModal(b)
    \/ \E f \in IssueForms : ProjectDetail_setFormData(f)
    \/ ProjectDetail_handleSubmit
    \/ \E r \in net : ProjectDetail_createIssue_resolved(r)
    \/ NextServer

SpecIssueList == InitIssueList /\ [][NextIssueList]_vars

\* what the server answers now to the request for the page's current
\* (currentPage, searchQuery)
CurrentIssuesAnswer ==
    ServerAnswer(issueService_getProjectIssues(projectDetail.currentPage,
                                               projectDetail.searchQuery), server)

\* C23: the issue list matches the current page and query.  When no request
\* is in flight any more and the last thing that happened is a loadIssues
\* response arriving, the issues shown and totalPages are those of the
\* answer to the request for the current (currentPage, searchQuery).
C23_ListMatchesPageAndQuery ==
    (/\ route = R_project
     /\ net = {}
     /\ last.op = "ProjectDetail.loadIssues.resolved")
        => /\ projectDetail.issues = ResultsOr(CurrentIssuesAnswer)
           /\ projectDetail.totalPages = ProjectDetail_totalPagesOf(CurrentIssuesAnswer)

----------------------------------------------------------------------------
(* The issue page used only for status changes, on a network where no
   request fails *)

InitStatus ==
    /\ InitPages
    /\ route = R_issue

NextStatus ==
    \/ IssueDetail_mount
    \/ \E r \in net : IssueDetail_loadData_resolved(r)
    \/ \E newStatus \in IssueStatus : IssueDetail_handleStatusChange(newStatus)
    \/ \E r \in net : IssueDetail_updateIssue_resolved(r)
    \/ NextServer

SpecStatus == InitStatus /\ [][NextStatus]_vars

\* C24: the displayed status converges to the stored status.  When all
\* update and reload requests have settled after the user's status changes,
\* the status shown on the issue page is the status the server stores, in
\* whatever order the responses arrived.
C24_StatusConverges ==
    (/\ route = R_issue
     /\ net = {}
     /\ last.op = "IssueDetail.loadData.resolved")
        => issueDetail.issue.status = server.status

\* the larger of two numbers
Max(a, b) == IF a >= b THEN a ELSE b

\* the loadIssues requests in flight
LoadIssuesRequests(n) == {r \in n : r.op = "ProjectDetail.loadIssues"}

\* C25: the page number stays in range.  In every state of ProjectDetail
\* 1 <= currentPage <= max(1, totalPages), and no loadIssues request asks
\* for a page beyond the last page that its own answer reports.
C25_PageInRange ==
    route = R_project =>
        /\ 1 <= projectDetail.currentPage
        /\ projectDetail.currentPage <= Max(1, projectDetail.totalPages)
        /\ \A r \in LoadIssuesRequests(net) : AllServed(r) =>
              r.cap.page <= Max(1, ProjectDetail_totalPagesOf(r.parts[1].resp))

\* C26: submitting a search sets searchQuery to the current searchInput and
\* puts currentPage back to 1 (the input itself stays); editing the search
\* input without submitting changes neither searchQuery nor currentPage and
\* sends no request.
C26_SearchSubmit ==
    [][ /\ (last'.op = "ProjectDetail.handleSearch" =>
               /\ projectDetail'.searchQuery = projectDetail.searchInput
               /\ projectDetail'.searchInput = projectDetail.searchInput
               /\ projectDetail'.currentPage = 1)
        /\ (last'.op = "ProjectDetail.setSearchInput" =>
               /\ projectDetail'.searchInput # projectDetail.searchInput
               /\ projectDetail'.searchQuery = projectDetail.searchQuery
               /\ projectDetail'.currentPage = projectDetail.currentPage
               /\ net' = net) ]_vars

\* a search for 'bug' has just been submitted from page 2: the request for
\* page 2 of the unfiltered list is still in flight, and the page is 1 again
C26_Witness ==
    /\ last.op = "ProjectDetail.handleSearch"
    /\ projectDetail.searchQuery = "bug"
    /\ projectDetail.currentPage = 1
    /\ \E r \in LoadIssuesRequests(net) : r.cap = [page |-> 2, search |-> ""]
    /\ \E r \in LoadIssuesRequests(net) : r.cap = [page |-> 1, search |-> "bug"]

----------------------------------------------------------------------------
(* Submission and loading flags: claims C27, C28 (checked under SpecPages) *)

\* the requests of handler op in flight
InFlight(op) == {r \in net : r.op = op}

\* C27: at most one create request per form is in flight.  For the New
\* Project form, the New Issue form and the comment form, there is never
\* more than one create request in flight, the form's isSubmitting flag is
\* true exactly while its create request is in flight (so it is false again
\* once the submission has succeeded or failed), and the form cannot be
\* submitted while the flag is true.
C27_OneCreateInFlight ==
    /\ Cardinality(InFlight("Projects.createProject")) <= 1
    /\ Cardinality(InFlight("ProjectDetail.createIssue")) <= 1
    /\ Cardinality(InFlight("IssueDetail.createComment")) <= 1
    /\ projects.isSubmitting <=> InFlight("Projects.createProject") # {}
    /\ projectDetail.isSubmitting <=> InFlight("ProjectDetail.createIssue") # {}
    /\ issueDetail.isSubmitting <=> InFlight("IssueDetail.createComment") # {}
    /\ projects.isSubmitting => ~ENABLED Projects_handleSubmit
    /\ projectDetail.isSubmitting => ~ENABLED ProjectDetail_handleSubmit
    /\ issueDetail.isSubmitting => ~ENABLED IssueDetail_handleSubmitComment

\* a comment submission has failed, the flag is false again with the text
\* still in the box, and the form can be submitted once more
C27_Witness ==
    /\ last.op = "IssueDetail.createComment.rejected"
    /\ ~issueDetail.isSubmitting
    /\ issueDetail.newComment = "hi"
    /\ InFlight("IssueDetail.createComment") = {}
    /\ ENABLED IssueDetail_handleSubmitComment

\* what ProjectDetail renders: the placeholder while isLoading, 'Project not
\* found' without a project, the page otherwise
ProjectDetail_view ==
    IF projectDetail.isLoading THEN "Loading..."
    ELSE IF projectDetail.project.null THEN "Project not found"
    ELSE "page"

\* what IssueDetail renders: the placeholder while isLoading, 'Issue not
\* found' without an issue, the page otherwise
IssueDetail_view ==
    IF issueDetail.isLoading THEN "Loading..."
    ELSE IF issueDetail.issue.null THEN "Issue not found"
    ELSE "page"

\* C28: every page leaves its loading state.  On each of Dashboard,
\* Projects, ProjectDetail and IssueDetail, once the page has sent its
\* initial load and none of its load requests is in flight any more,
\* isLoading is false, whether the load succeeded or failed; and when the
\* load of the project or of the issue has failed with nothing loaded
\* before, the page shows 'Project not found' / 'Issue not found', not the
\* loading placeholder.
C28_LoadingEnds ==
    /\ (dashboard.mounted /\ InFlight("Dashboard.loadData") = {})
          => ~dashboard.isLoading
    /\ (projects.mounted /\ InFlight("Projects.loadProjects") = {})
          => ~projects.isLoading
    /\ (projectDetail.mounted /\ InFlight("ProjectDetail.loadProject") = {})
          => ~projectDetail.isLoading
    /\ (issueDetail.mounted /\ InFlight("IssueDetail.loadData") = {})
          => ~issueDetail.isLoading
    /\ (last.op = "ProjectDetail.loadProject.rejected" /\ projectDetail.project.null)
          => ProjectDetail_view = "Project not found"
    /\ (last.op = "IssueDetail.loadData.rejected" /\ issueDetail.issue.null)
          => IssueDetail_view = "Issue not found"

\* the issue page's initial load has failed: the page is out of its loading
\* state and shows 'Issue not found'
C28_Witness ==
    /\ route = R_issue
    /\ last.op = "IssueDetail.loadData.rejected"
    /\ net = {}
    /\ ~issueDetail.isLoading
    /\ IssueDetail_view = "Issue not found"

=============================================================================
